---------------------------- MODULE Spec2Model ----------------------------
(***************************************************************************)
(* A model of the front end of tank (cjkenn/tank): the recursive-descent   *)
(* parser of src/syntax/parser.rs, the symbol table of                     *)
(* src/syntax/symbol_table.rs and the driver Compiler::compile of          *)
(* src/compile/compiler.rs.                                                *)
(*                                                                         *)
(* A template is given as the sequence of tokens the lexer yields for it.  *)
(* Every grammar routine is an operator from a parser state to a parser    *)
(* state and the node it returns, written statement by statement after     *)
(* the Rust source.  A parser state carries, besides the fields of the     *)
(* Rust struct, how the call ended (status) and the history of the tokens  *)
(* read and of the symbol-table calls made (trace).                        *)
(***************************************************************************)
EXTENDS Naturals, Sequences, FiniteSets, TLC

\* config: the configuration map the compiler was constructed from (None for
\* Compiler::new); parser: the Parser; out: what has been printed; gen: the
\* calls of Gen::output; pc: where the run is.
VARIABLES config, parser, pc, out, gen

vars == <<config, parser, pc, out, gen>>

(***************************************************************************)
(* Option<T>: None is the empty sequence, Some(x) the one-element one.     *)
(***************************************************************************)
None == << >>

Some(x) == <<x>>

unwrap_or(o, d) ==
    IF o = None THEN d ELSE o[1]

(***************************************************************************)
(* Then(v, K): the statements K after the statement that yields v.  The    *)
(* routines below are written as the Rust statements in their order, each   *)
(* naming what it yields for the statements after it.                      *)
(***************************************************************************)
Then(v, K(_)) == K(v)

(***************************************************************************)
(* Tokens (syntax::token).                                                 *)
(***************************************************************************)
Token_new(t, v) ==
    [tok_type |-> t, val |-> v]

Token_new_from_empty ==
    Token_new("Eof", "")

(***************************************************************************)
(* The lexer (syntax::lexer): a cursor over the template's tokens, with    *)
(* one token of lookahead.  lex() moves to the next token and yields no    *)
(* token, again and again, at the end of the input; peek_tok() is the      *)
(* token after the current one.                                            *)
(***************************************************************************)
Lexer_new(template) ==
    [toks |-> template, pos |-> 0, curr_tok |-> None]

lex(l) ==
    IF l.pos < Len(l.toks)
    THEN [l EXCEPT !.pos = @ + 1, !.curr_tok = Some(l.toks[l.pos + 1])]
    ELSE [l EXCEPT !.pos = Len(l.toks) + 1, !.curr_tok = None]

peek_tok(l) ==
    IF l.pos + 1 <= Len(l.toks) THEN l.toks[l.pos + 1] ELSE Token_new_from_empty

(***************************************************************************)
(* Syntax tree nodes (syntax::ast).                                        *)
(***************************************************************************)
Ast_new(t) ==
    [ast_type |-> t, val |-> "", var_type |-> None, children |-> << >>]

Ast_new_from_value(t, v) ==
    [ast_type |-> t, val |-> v, var_type |-> None, children |-> << >>]

push(ast, child) ==
    [ast EXCEPT !.children = Append(@, child)]

insert0(ast, child) ==
    [ast EXCEPT !.children = <<child>> \o @]

(***************************************************************************)
(* Diagnostics (error::parse_err): messages in the order of discovery.     *)
(***************************************************************************)
ParseDiagnostic_new == << >>

Diag_new_err(d, text) ==
    Append(d, [sev |-> "Error", text |-> text, tok |-> None])

Diag_parse_err(d, text, tok) ==
    Append(d, [sev |-> "Error", text |-> text, tok |-> Some(tok)])

is_err(d) ==
    \E i \in 1..Len(d) : d[i].sev = "Error"

has_messages(d) ==
    Len(d) > 0

(***************************************************************************)
(* The symbol table: a HashMap from names to symbols.                      *)
(***************************************************************************)
GLOBAL_SCOPE == "global"

FOR_SCOPE == "for"

NoPanic == << >>

Symbol(n, t, v, s) ==
    [name |-> n, sym_type |-> t, val |-> v, scope |-> s]

HashMap_insert(table, k, v) ==
    [x \in (DOMAIN table) \cup {k} |-> IF x = k THEN v ELSE table[x]]

SymbolTable_new == << >>

\* map: a function from names to strings (the BTreeMap read from the JSON file)
from_existing_map(map) ==
    [k \in DOMAIN map |-> Symbol(k, "String", map[k], GLOBAL_SCOPE)]

SymbolTable_get(table, key) ==
    IF key \in DOMAIN table THEN Some(table[key]) ELSE None

\* The result of a call that may panic: the table after it and the panic
\* message (NoPanic when it returned).
Returned(table) ==
    [table |-> table, panic |-> NoPanic]

Panicked(table, msg) ==
    [table |-> table, panic |-> msg]

\* insert() without the test of the node's type
insert_any_type(table, ast) ==
    IF Len(ast.children) < 2
    THEN Panicked(table, <<"tank: Invalid ast passed to symbol table">>)
    ELSE IF ast.children[1].var_type = None
    THEN Panicked(table, <<"tank: Variable declared without a type">>)
    ELSE IF SymbolTable_get(table, ast.children[1].val) # None
    THEN Panicked(table, <<"tank: Redeclared symbol", table[ast.children[1].val].val, "found">>)
    ELSE Returned(HashMap_insert(table, ast.children[1].val,
             Symbol(ast.children[1].val, ast.children[1].var_type[1],
                    ast.children[2].val, GLOBAL_SCOPE)))

\* insert() building the symbol with the identifier in place of the value
insert_value_from_ident(table, ast) ==
    IF ast.ast_type # "AssignExpr"
    THEN Panicked(table, <<"tank: Invalid ast type found in symbol table">>)
    ELSE IF Len(ast.children) < 2
    THEN Panicked(table, <<"tank: Invalid ast passed to symbol table">>)
    ELSE IF ast.children[1].var_type = None
    THEN Panicked(table, <<"tank: Variable declared without a type">>)
    ELSE IF SymbolTable_get(table, ast.children[1].val) # None
    THEN Panicked(table, <<"tank: Redeclared symbol", table[ast.children[1].val].val, "found">>)
    ELSE Returned(HashMap_insert(table, ast.children[1].val,
             Symbol(ast.children[1].val, ast.children[1].var_type[1],
                    ast.children[1].val, GLOBAL_SCOPE)))

\* insert() without the test for a symbol of the same name
insert_no_redeclared_check(table, ast) ==
    IF ast.ast_type # "AssignExpr"
    THEN Panicked(table, <<"tank: Invalid ast type found in symbol table">>)
    ELSE IF Len(ast.children) < 2
    THEN Panicked(table, <<"tank: Invalid ast passed to symbol table">>)
    ELSE IF ast.children[1].var_type = None
    THEN Panicked(table, <<"tank: Variable declared without a type">>)
    ELSE Returned(HashMap_insert(table, ast.children[1].val,
             Symbol(ast.children[1].val, ast.children[1].var_type[1],
                    ast.children[2].val, GLOBAL_SCOPE)))

insert(table, ast) ==
    IF ast.ast_type # "AssignExpr"
    THEN Panicked(table, <<"tank: Invalid ast type found in symbol table">>)
    ELSE IF Len(ast.children) < 2
    THEN Panicked(table, <<"tank: Invalid ast passed to symbol table">>)
    ELSE LET ident == ast.children[1].val
             value == ast.children[2].val
         IN  IF ast.children[1].var_type = None
             THEN Panicked(table, <<"tank: Variable declared without a type">>)
             ELSE IF SymbolTable_get(table, ident) # None
             THEN Panicked(table, <<"tank: Redeclared symbol", table[ident].val, "found">>)
             ELSE Returned(HashMap_insert(table, ident,
                      Symbol(ident, ast.children[1].var_type[1], value, GLOBAL_SCOPE)))

\* insert_for_id() without the test for a symbol of the same name
insert_for_id_no_redeclared_check(table, ast) ==
    IF ast.ast_type # "Ident"
    THEN Panicked(table, <<"tank: Invalid ast type", ast.ast_type, "found">>)
    ELSE IF ast.var_type = None
    THEN Panicked(table, <<"tank: Variable declared without a type">>)
    ELSE Returned(HashMap_insert(table, ast.val,
             Symbol(ast.val, ast.var_type[1], ast.val, FOR_SCOPE)))

insert_for_id(table, ast) ==
    IF ast.ast_type # "Ident"
    THEN Panicked(table, <<"tank: Invalid ast type", ast.ast_type, "found">>)
    ELSE LET ident == ast.val
         IN  IF SymbolTable_get(table, ident) # None
             THEN Panicked(table, <<"tank: Redeclared symbol", table[ident].val, "found">>)
             ELSE IF ast.var_type = None
             THEN Panicked(table, <<"tank: Variable declared without a type">>)
             ELSE Returned(HashMap_insert(table, ident,
                      Symbol(ident, ast.var_type[1], ident, FOR_SCOPE)))

(***************************************************************************)
(* The parser (syntax::parser).  status is "run" while parse() is          *)
(* executing, "returned" once it has returned, "panic" after a panic!()    *)
(* and "overflow" after the call stack is exhausted; nothing executes      *)
(* after a panic or an overflow.                                           *)
(***************************************************************************)
Parser_new(template, symbol_table) ==
    LET m_lexer == lex(Lexer_new(template))
    IN  [lexer        |-> m_lexer,
         symbol_table |-> symbol_table,
         curr_tok     |-> unwrap_or(m_lexer.curr_tok, Token_new_from_empty),
         root         |-> Ast_new("Template"),
         diagnostic   |-> ParseDiagnostic_new,
         status       |-> "new",
         panic_msg    |-> NoPanic,
         trace        |-> << >>]

Running(p) ==
    p.status = "run"

panic(p, msg) ==
    IF Running(p) THEN [p EXCEPT !.status = "panic", !.panic_msg = msg] ELSE p

stack_overflow(p) ==
    IF Running(p) THEN [p EXCEPT !.status = "overflow"] ELSE p

\* A routine's result: the parser after the call and the node it returned.
Ret(p, ast) ==
    [p |-> p, ast |-> ast]

new_err(p, text) ==
    IF Running(p) THEN [p EXCEPT !.diagnostic = Diag_new_err(@, text)] ELSE p

get_next_tok(p) ==
    IF ~Running(p) THEN p
    ELSE Then(lex(p.lexer), LAMBDA l :
         [p EXCEPT !.lexer = l,
                   !.curr_tok = unwrap_or(l.curr_tok, Token_new_from_empty),
                   !.trace = Append(@, [op |-> "lex", pos |-> l.pos, arg |-> None,
                                        table |-> p.symbol_table])])

peek(p) ==
    peek_tok(p.lexer).tok_type

\* expect() recording the Error and consuming the token that is not the
\* expected one
expect_consuming(p, token_type) ==
    IF ~Running(p) THEN p
    ELSE IF p.curr_tok.tok_type = token_type
    THEN get_next_tok(p)
    ELSE get_next_tok([p EXCEPT !.diagnostic =
              Diag_parse_err(@, <<"Expected", token_type, "found", p.curr_tok.tok_type>>,
                             p.curr_tok)])

\* expect() recording nothing when the token is not the expected one
expect_no_diagnostic(p, token_type) ==
    IF ~Running(p) THEN p
    ELSE IF p.curr_tok.tok_type = token_type
    THEN get_next_tok(p)
    ELSE p

expect(p, token_type) ==
    IF ~Running(p) THEN p
    ELSE IF p.curr_tok.tok_type = token_type
    THEN get_next_tok(p)
    ELSE [p EXCEPT !.diagnostic =
              Diag_parse_err(@, <<"Expected", token_type, "found", p.curr_tok.tok_type>>,
                             p.curr_tok)]

\* self.symbol_table.insert(&ast) and self.symbol_table.insert_for_id(&ast)
\* as the parser calls them: the call is recorded in the history (traced),
\* and a panic inside ends the parse (after_insert).
traced(p, op, ast) ==
    [p EXCEPT !.trace = Append(@, [op |-> op, pos |-> p.lexer.pos, arg |-> Some(ast),
                                   table |-> p.symbol_table])]

after_insert(p, r) ==
    IF r.panic # NoPanic THEN panic(p, r.panic) ELSE [p EXCEPT !.symbol_table = r.table]

symbol_table_insert(p, ast) ==
    IF ~Running(p) THEN p
    ELSE after_insert(traced(p, "insert", ast), insert(p.symbol_table, ast))

symbol_table_insert_for_id(p, ast) ==
    IF ~Running(p) THEN p
    ELSE after_insert(traced(p, "insert_for_id", ast), insert_for_id(p.symbol_table, ast))

\* self.symbol_table.get(key), as a caller holding the parser makes it: the
\* table is only read
symbol_table_get(p, key) ==
    IF ~Running(p) THEN p ELSE traced(p, "get", key)

root_insert0(p, ast) ==
    IF Running(p) THEN [p EXCEPT !.root = insert0(@, ast)] ELSE p


(***************************************************************************)
(* term(): a constant identifier or number.  Its last arm calls expr(),    *)
(* whose first statement calls op(), whose first statement calls term()    *)
(* again: no token is read in between, so the arm never returns and the    *)
(* call stack is exhausted.                                                *)
(***************************************************************************)
\* term() without its arm for "->"
term_no_arrow_arm(p) ==
    IF ~Running(p) THEN Ret(p, Ast_new("Eof"))
    ELSE CASE p.curr_tok.tok_type = "Ident" ->
                Ret(get_next_tok(p),
                    Ast_new_from_value(IF peek(p) = "LeftParen" THEN "ElementName" ELSE "Ident",
                                       p.curr_tok.val))
           [] p.curr_tok.tok_type = "Number" ->
                Ret(get_next_tok(p), Ast_new_from_value("Number", p.curr_tok.val))
           [] p.curr_tok.tok_type = "Eof" ->
                Ret(p, Ast_new("Eof"))
           [] OTHER ->
                Ret(stack_overflow(p), Ast_new("Eof"))

term(p) ==
    IF ~Running(p) THEN Ret(p, Ast_new("Eof"))
    ELSE CASE p.curr_tok.tok_type = "Ident" ->
                Ret(get_next_tok(p),
                    Ast_new_from_value(IF peek(p) = "LeftParen" THEN "ElementName" ELSE "Ident",
                                       p.curr_tok.val))
           [] p.curr_tok.tok_type = "Number" ->
                Ret(get_next_tok(p), Ast_new_from_value("Number", p.curr_tok.val))
           [] p.curr_tok.tok_type = "Eof" ->
                Ret(p, Ast_new("Eof"))
           [] p.curr_tok.tok_type = "Arrow" ->
                Ret(new_err(p, <<"Unexpected token", p.curr_tok.val, "found">>),
                    Ast_new("Eof"))
           [] OTHER ->
                Ret(stack_overflow(p), Ast_new("Eof"))

(***************************************************************************)
(* op(): a term, then the while loop over "+" and "-".                     *)
(***************************************************************************)
RECURSIVE op_while(_, _)
op_while(p, op_ast) ==
    IF Running(p) /\ p.curr_tok.tok_type \in {"Plus", "Minus"}
    THEN Then(Ast_new(IF p.curr_tok.tok_type = "Plus" THEN "Plus" ELSE "Minus"),
                                                              LAMBDA new_ast :
         Then(get_next_tok(p),                                LAMBDA p1 :
         Then(term(p1),                                       LAMBDA r :
         op_while(r.p, push(push(new_ast, op_ast), r.ast)))))
    ELSE Ret(p, op_ast)

op(p) ==
    Then(term(p), LAMBDA r : op_while(r.p, r.ast))

(***************************************************************************)
(* expr(): an operation, the token after it, and a second operation.       *)
(***************************************************************************)
CompareOps ==
    {"Gt", "Lt", "GtEquals", "LtEquals", "NotEquals", "EqualsEquals"}

\* the match on the current token: the parser after it, the first operand
\* after it and the type of the new node
expr_match(p1, test_ast) ==
    CASE p1.curr_tok.tok_type \in CompareOps ->
            [p |-> p1, test_ast |-> test_ast, curr_ast_type |-> p1.curr_tok.tok_type]
      [] p1.curr_tok.tok_type = "Colon" ->
            Then(get_next_tok(p1), LAMBDA p2 :
            [p |-> get_next_tok(p2),
             test_ast |-> [test_ast EXCEPT !.var_type = Some(p2.curr_tok.val)],
             curr_ast_type |-> "AssignExpr"])
      [] p1.curr_tok.tok_type = "Equals" ->
            [p |-> expect(p1, "Ident"), test_ast |-> test_ast, curr_ast_type |-> "Empty"]
      [] OTHER ->
            [p |-> p1, test_ast |-> test_ast, curr_ast_type |-> test_ast.ast_type]

\* expr() without the second operand in the node
expr_one_operand(p) ==
    IF ~Running(p) THEN Ret(p, Ast_new("Eof"))
    ELSE Then(op(p),                     LAMBDA r1 :
         Then(expr_match(r1.p, r1.ast),  LAMBDA m :
         Then(get_next_tok(m.p),         LAMBDA p3 :
         Then(op(p3),                    LAMBDA r2 :
         Ret(r2.p, push(Ast_new(m.curr_ast_type), m.test_ast))))))

expr(p) ==
    IF ~Running(p) THEN Ret(p, Ast_new("Eof"))
    ELSE Then(op(p),                     LAMBDA r1 :
         Then(expr_match(r1.p, r1.ast),  LAMBDA m :
         Then(get_next_tok(m.p),         LAMBDA p3 :
         Then(op(p3),                    LAMBDA r2 :
         Ret(r2.p, push(push(Ast_new(m.curr_ast_type), m.test_ast), r2.ast))))))

(***************************************************************************)
(* contents(): the words and interpolations of an element's body.          *)
(***************************************************************************)
RECURSIVE contents_while(_, _)

\* the loop of contents() taking the value of the "%" token for the name
contents_while_value_of_percent(p, contents_ast) ==
    IF Running(p) /\ p.curr_tok.tok_type \in {"Ident", "Percent"} /\ peek(p) # "LeftParen"
    THEN IF p.curr_tok.tok_type = "Ident"
         THEN contents_while(get_next_tok(p),
                  push(contents_ast, Ast_new_from_value("Ident", p.curr_tok.val)))
         ELSE Then(get_next_tok(p), LAMBDA p1 :
              contents_while(get_next_tok(p1),
                  push(contents_ast, Ast_new_from_value("VariableValue", p.curr_tok.val))))
    ELSE Ret(p, contents_ast)

contents_while(p, contents_ast) ==
    IF Running(p) /\ p.curr_tok.tok_type \in {"Ident", "Percent"} /\ peek(p) # "LeftParen"
    THEN IF p.curr_tok.tok_type = "Ident"
         THEN contents_while(get_next_tok(p),
                  push(contents_ast, Ast_new_from_value("Ident", p.curr_tok.val)))
         ELSE Then(get_next_tok(p), LAMBDA p1 :
              contents_while(get_next_tok(p1),
                  push(contents_ast, Ast_new_from_value("VariableValue", p1.curr_tok.val))))
    ELSE Ret(p, contents_ast)

contents_match(p0) ==
    CASE p0.curr_tok.tok_type = "Ident" ->
            contents_while(p0, Ast_new("Contents"))
      [] p0.curr_tok.tok_type = "Ampersand" ->
            Then(get_next_tok(p0), LAMBDA p1 :
            Ret(get_next_tok(p1), Ast_new_from_value("Include", p1.curr_tok.val)))
      [] p0.curr_tok.tok_type = "Percent" ->
            Then(get_next_tok(p0), LAMBDA p1 :
            Ret(get_next_tok(p1), Ast_new_from_value("VariableValue", p1.curr_tok.val)))
      [] OTHER ->
            Ret(p0, Ast_new("Eof"))

contents(p) ==
    IF ~Running(p) THEN Ret(p, Ast_new("Eof"))
    ELSE IF p.curr_tok.tok_type = "Arrow"
    THEN contents_match(new_err(p, <<"Unexpected token", p.curr_tok.val, "found">>))
    ELSE contents_match(p)

(***************************************************************************)
(* attr_list(): "(", the key/value pairs, ")" and "->".                    *)
(***************************************************************************)
\* the loop of attr_list() leaving after its first pair, Error or not
attr_list_while_one_pair(p, attr_ast) ==
    IF Running(p) /\ p.curr_tok.tok_type # "RightParen"
    THEN Then(term(p),                LAMBDA r1 :
         Then(expect(r1.p, "Colon"),  LAMBDA p1 :
         Then(term(p1),               LAMBDA r2 :
         Ret(r2.p, push(push(attr_ast, r1.ast), r2.ast)))))
    ELSE Ret(p, attr_ast)

\* the loop of attr_list() leaving only on an Error of the pair just parsed
RECURSIVE attr_list_while_own_errors(_, _)
attr_list_while_own_errors(p, attr_ast) ==
    IF Running(p) /\ p.curr_tok.tok_type # "RightParen"
    THEN Then(term(p),                LAMBDA r1 :
         Then(expect(r1.p, "Colon"),  LAMBDA p1 :
         Then(term(p1),               LAMBDA r2 :
         IF r2.p.diagnostic # p.diagnostic
         THEN Ret(r2.p, push(push(attr_ast, r1.ast), r2.ast))
         ELSE attr_list_while_own_errors(r2.p, push(push(attr_ast, r1.ast), r2.ast)))))
    ELSE Ret(p, attr_ast)

RECURSIVE attr_list_while(_, _)
attr_list_while(p, attr_ast) ==
    IF Running(p) /\ p.curr_tok.tok_type # "RightParen"
    THEN Then(term(p),                LAMBDA r1 :
         Then(expect(r1.p, "Colon"),  LAMBDA p1 :
         Then(term(p1),               LAMBDA r2 :
         IF is_err(r2.p.diagnostic)
         THEN Ret(r2.p, push(push(attr_ast, r1.ast), r2.ast))
         ELSE attr_list_while(r2.p, push(push(attr_ast, r1.ast), r2.ast)))))
    ELSE Ret(p, attr_ast)

attr_list(p) ==
    Then(expect(p, "LeftParen"),                     LAMBDA p1 :
    Then(attr_list_while(p1, Ast_new("AttrList")),   LAMBDA r :
    Then(expect(r.p, "RightParen"),                  LAMBDA p2 :
    Ret(expect(p2, "Arrow"), r.ast))))

(***************************************************************************)
(* element(): one arm per operator below.                                  *)
(***************************************************************************)
RECURSIVE element(_)

\* the "if" arm attaching the element after the closing brace to the IfExpr
element_if_next_as_child(p) ==
    Then(get_next_tok(p),              LAMBDA p1 :
    Then(expr(p1),                     LAMBDA r1 :
    Then(expect(r1.p, "LeftBrace"),    LAMBDA p2 :
    Then(element(p2),                  LAMBDA r2 :
    Then(expect(r2.p, "RightBrace"),   LAMBDA p3 :
    Then(element(p3),                  LAMBDA next :
    Ret(next.p, push(push(push(Ast_new("IfExpr"), r1.ast), r2.ast), next.ast))))))))

\* "if" => { ... }
element_if(p) ==
    Then(get_next_tok(p),              LAMBDA p1 :
    Then(expr(p1),                     LAMBDA r1 :
    Then(expect(r1.p, "LeftBrace"),    LAMBDA p2 :
    Then(element(p2),                  LAMBDA r2 :
    Then(expect(r2.p, "RightBrace"),   LAMBDA p3 :
    Then(element(p3),                  LAMBDA next :
    Ret(root_insert0(next.p, next.ast),
        push(push(Ast_new("IfExpr"), r1.ast), r2.ast))))))))

\* the "for" arm leaving the loop variable without a type label
element_for_type_unset(p) ==
    Then(get_next_tok(p),                                      LAMBDA p1 :
    Then(term(p1),                                             LAMBDA r1 :
    Then(expect(r1.p, "Colon"),                                LAMBDA p2 :
    Then(symbol_table_insert_for_id(p2, r1.ast),               LAMBDA p3 :
    Then(get_next_tok(p3),                                     LAMBDA p4 :
    Then(IF p4.curr_tok.val # "in"
         THEN new_err(p4, <<"Expected 'in' at for loop">>)
         ELSE get_next_tok(p4),                                LAMBDA p5 :
    Then(term(p5),                                             LAMBDA r2 :
    Then(element(r2.p),                                        LAMBDA r3 :
    Ret(r3.p, push(push(push(Ast_new("ForExpr"), r1.ast), r2.ast), r3.ast))))))))))

\* "for" => { ... }
element_for(p) ==
    Then(get_next_tok(p),                                      LAMBDA p1 :
    Then(term(p1),                                             LAMBDA r1 :
    Then(expect(r1.p, "Colon"),                                LAMBDA p2 :
    Then([r1.ast EXCEPT !.var_type = Some(p2.curr_tok.val)],   LAMBDA first_ident_ast :
    Then(symbol_table_insert_for_id(p2, first_ident_ast),      LAMBDA p3 :
    Then(get_next_tok(p3),                                     LAMBDA p4 :
    Then(IF p4.curr_tok.val # "in"
         THEN new_err(p4, <<"Expected 'in' at for loop">>)
         ELSE get_next_tok(p4),                                LAMBDA p5 :
    Then(term(p5),                                             LAMBDA r2 :
    Then(element(r2.p),                                        LAMBDA r3 :
    Ret(r3.p, push(push(push(Ast_new("ForExpr"), first_ident_ast), r2.ast),
                   r3.ast)))))))))))

\* the "let" arm registering the binding after the element that follows it
element_let_insert_after_next(p) ==
    Then(get_next_tok(p),                                     LAMBDA p1 :
    Then(expr(p1),                                            LAMBDA assign_el :
    Then(element(assign_el.p),                                LAMBDA next :
    Then(symbol_table_insert(next.p, assign_el.ast),          LAMBDA p2 :
    Ret(root_insert0(p2, next.ast), push(Ast_new("Element"), assign_el.ast))))))

\* "let" => { ... }
element_let(p) ==
    Then(get_next_tok(p),                                     LAMBDA p1 :
    Then(expr(p1),                                            LAMBDA assign_el :
    Then(symbol_table_insert(assign_el.p, assign_el.ast),     LAMBDA p2 :
    Then(element(p2),                                         LAMBDA next :
    Ret(root_insert0(next.p, next.ast), push(Ast_new("Element"), assign_el.ast))))))

\* the default arm taking the body for contents without looking ahead
element_default_no_lookahead(p) ==
    Then(term(p),                                                   LAMBDA r1 :
    Then(IF r1.p.curr_tok.tok_type = "LeftParen"
         THEN Then(attr_list(r1.p), LAMBDA al :
                   Ret(al.p, push(push(Ast_new("Element"), r1.ast), al.ast)))
         ELSE Ret(r1.p, push(Ast_new("Element"), r1.ast)),          LAMBDA r2 :
    Then(contents(r2.p),                                            LAMBDA r3 :
    Then(element(r3.p),                                             LAMBDA next :
    Ret(root_insert0(next.p, next.ast), push(r2.ast, r3.ast))))))

\* _ => { ... } of the match on the identifier: an element declaration
element_default(p) ==
    Then(term(p),                                                   LAMBDA r1 :
    Then(IF r1.p.curr_tok.tok_type = "LeftParen"
         THEN Then(attr_list(r1.p), LAMBDA al :
                   Ret(al.p, push(push(Ast_new("Element"), r1.ast), al.ast)))
         ELSE Ret(r1.p, push(Ast_new("Element"), r1.ast)),          LAMBDA r2 :
    Then(IF peek(r2.p) = "LeftParen" THEN element(r2.p) ELSE contents(r2.p),
                                                                    LAMBDA r3 :
    Then(element(r3.p),                                             LAMBDA next :
    Ret(root_insert0(next.p, next.ast), push(r2.ast, r3.ast))))))

\* the brace arm returning the element inside the braces itself
element_brace_unwrapped(p) ==
    Then(get_next_tok(p),  LAMBDA p1 :
    Then(element(p1),      LAMBDA r1 :
    Ret(expect(r1.p, "RightBrace"), r1.ast)))

\* TokenType::LeftBrace => { ... }
element_brace(p) ==
    Then(get_next_tok(p),  LAMBDA p1 :
    Then(element(p1),      LAMBDA r1 :
    Ret(expect(r1.p, "RightBrace"), push(Ast_new("Element"), r1.ast))))

\* the include arm without the element that follows it
element_include_no_next(p) ==
    Then(get_next_tok(p),   LAMBDA p1 :
    Ret(get_next_tok(p1), Ast_new_from_value("Include", p1.curr_tok.val)))

\* the include arm taking the value of the "&" token for the file name
element_include_value_of_ampersand(p) ==
    Then(get_next_tok(p),   LAMBDA p1 :
    Then(get_next_tok(p1),  LAMBDA p2 :
    Then(element(p2),       LAMBDA next :
    Ret(root_insert0(next.p, next.ast),
        Ast_new_from_value("Include", p.curr_tok.val)))))

\* TokenType::Ampersand => { ... }
element_include(p) ==
    Then(get_next_tok(p),   LAMBDA p1 :
    Then(get_next_tok(p1),  LAMBDA p2 :
    Then(element(p2),       LAMBDA next :
    Ret(root_insert0(next.p, next.ast),
        Ast_new_from_value("Include", p1.curr_tok.val)))))

element(p) ==
    IF ~Running(p) THEN Ret(p, Ast_new("Element"))
    ELSE CASE p.curr_tok.tok_type = "Ident" ->
                CASE p.curr_tok.val = "if"  -> element_if(p)
                  [] p.curr_tok.val = "for" -> element_for(p)
                  [] p.curr_tok.val = "let" -> element_let(p)
                  [] OTHER                  -> element_default(p)
           [] p.curr_tok.tok_type = "LeftBrace" -> element_brace(p)
           [] p.curr_tok.tok_type = "Ampersand" -> element_include(p)
           [] OTHER -> Ret(p, Ast_new("Eof"))

(***************************************************************************)
(* parse(): the entry point.                                               *)
(***************************************************************************)
\* the end of parse(): control leaves the call
return(p) ==
    IF Running(p) THEN [p EXCEPT !.status = "returned"] ELSE p

\* parse() without the test for an empty input
parse_no_eof_check(p) ==
    Then(element([p EXCEPT !.status = "run"]), LAMBDA el :
    return(root_insert0(el.p, el.ast)))

parse(p) ==
    Then([p EXCEPT !.status = "run"],                                         LAMBDA p0 :
    Then(IF p0.curr_tok.tok_type = "Eof"
         THEN new_err(p0, <<"End of input reached, nothing to parse!">>)
         ELSE p0,                                                             LAMBDA p1 :
    Then(element(p1),                                                         LAMBDA el :
    return(root_insert0(el.p, el.ast)))))

(***************************************************************************)
(* Compiler::compile(): parse, print the messages, then stop on an error   *)
(* or hand the tree and the symbol table to the generator.  c is the       *)
(* compiler with what it has printed (out) and the calls of Gen::output    *)
(* it has made (gen).                                                      *)
(***************************************************************************)
print_messages(o, d) ==
    o \o d

println(o, text) ==
    Append(o, [sev |-> "Info", text |-> text, tok |-> None])

\* compile() going on to the generator after printing, errors or not
compile_no_abort(c) ==
    Then(println(c.out, <<"tank: Compiling">>),   LAMBDA o1 :
    Then(parse(c.parser),                         LAMBDA p1 :
    IF p1.status # "returned"
    THEN [parser |-> p1, out |-> o1, gen |-> c.gen, pc |-> "aborted"]
    ELSE [parser |-> p1,
          out |-> IF has_messages(p1.diagnostic)
                  THEN print_messages(o1, p1.diagnostic) ELSE o1,
          gen |-> Append(c.gen, [ast |-> p1.root, sym |-> p1.symbol_table]),
          pc |-> "generated"]))

compile(c) ==
    Then(println(c.out, <<"tank: Compiling">>),   LAMBDA o1 :
    Then(parse(c.parser),                         LAMBDA p1 :
    IF p1.status # "returned"
    THEN [parser |-> p1, out |-> o1, gen |-> c.gen, pc |-> "aborted"]
    ELSE IF has_messages(p1.diagnostic)
    THEN IF is_err(p1.diagnostic)
         THEN [parser |-> p1, out |-> print_messages(o1, p1.diagnostic), gen |-> c.gen,
               pc |-> "aborted"]
         ELSE [parser |-> p1, out |-> print_messages(o1, p1.diagnostic),
               gen |-> Append(c.gen, [ast |-> p1.root, sym |-> p1.symbol_table]),
               pc |-> "generated"]
    ELSE [parser |-> p1, out |-> o1,
          gen |-> Append(c.gen, [ast |-> p1.root, sym |-> p1.symbol_table]),
          pc |-> "generated"]))

(***************************************************************************)
(* The vocabulary of the templates checked.                                *)
(***************************************************************************)
Id(v) == Token_new("Ident", v)

Num(v) == Token_new("Number", v)

LP == Token_new("LeftParen", "(")

RP == Token_new("RightParen", ")")

LB == Token_new("LeftBrace", "{")

RB == Token_new("RightBrace", "}")

COLON == Token_new("Colon", ":")

ARROW == Token_new("Arrow", "->")

PLUS == Token_new("Plus", "+")

GT == Token_new("Gt", ">")

EQUALS == Token_new("Equals", "=")

AMP == Token_new("Ampersand", "&")

PCT == Token_new("Percent", "%")


(***************************************************************************)
(* Sequences over a set, up to a length.                                   *)
(***************************************************************************)
SeqsUpTo(S, n) ==
    UNION {[1..k -> S] : k \in 0..n}

RECURSIVE Concat(_)
Concat(ss) ==
    IF ss = << >> THEN << >> ELSE Head(ss) \o Concat(Tail(ss))

\* s without its i-th element
DeleteAt(s, i) ==
    SubSeq(s, 1, i - 1) \o SubSeq(s, i + 1, Len(s))

(***************************************************************************)
(* The templates checked.  Atoms are whole elements; Wrap puts a body      *)
(* inside a construct that takes one.                                      *)
(***************************************************************************)
MaxSoup == 3

MaxElems == 2

MaxPairs == 2

MaxWords == 2

MaxDeletes == 1

ElemDecl == <<Id("div"), LP, RP, ARROW, Id("c")>>

ElemAttr == <<Id("p"), LP, Id("class"), COLON, Id("cn"), RP, ARROW, Id("c"), Id("d")>>

ElemVar == <<Id("div"), LP, RP, ARROW, PCT, Id("v"), PCT, Id("c")>>

IncludeF == <<AMP, Id("f")>>

ElemAttr2 ==
    <<Id("div"), LP, Id("class"), COLON, Id("cn"), Id("id"), COLON, Num("1"), RP, ARROW, Id("c")>>

LetX == <<Id("let"), Id("x"), COLON, Id("Int"), EQUALS, Num("10")>>

LetY == <<Id("let"), Id("y"), COLON, Id("Str"), EQUALS, Id("x")>>

LetNoType == <<Id("let"), Id("x"), EQUALS, Num("10")>>

Atoms ==
    {ElemDecl, ElemAttr, ElemVar, IncludeF, LetX, LetY, LetNoType}

WrapKinds ==
    {"if", "for", "for_no_type", "brace", "nest", "nest_brace"}

Wrap(k, b) ==
    CASE k = "if"          -> <<Id("if"), Id("x"), GT, Num("10"), LB>> \o b \o <<RB>>
      [] k = "for"         -> <<Id("for"), Id("x"), COLON, Id("Int"), Id("in"), Id("xs"), LB>>
                                  \o b \o <<RB>>
      [] k = "for_no_type" -> <<Id("for"), Id("x"), Id("in"), Id("xs"), LB>> \o b \o <<RB>>
      [] k = "brace"       -> <<LB>> \o b \o <<RB>>
      [] k = "nest"        -> <<Id("div"), LP, RP, ARROW>> \o b
      [] k = "nest_brace"  -> <<Id("div"), LP, RP, ARROW, LB>> \o b \o <<RB>>

\* up to MaxElems atoms in a row
AtomSeqs ==
    {Concat(s) : s \in SeqsUpTo(Atoms, MaxElems)}

AtomOrNone ==
    Atoms \cup {<< >>}

Wrapped1 ==
    {Wrap(k, b) : k \in WrapKinds, b \in AtomSeqs}

Wrapped2 ==
    {Wrap(k1, Wrap(k2, b)) : k1 \in WrapKinds, k2 \in WrapKinds, b \in AtomOrNone}

\* a construct, after a declaration or not, then at most one more element
Structured ==
    {pre \o w \o post : pre \in {<< >>, LetX}, w \in AtomSeqs \cup Wrapped1 \cup Wrapped2,
                        post \in AtomOrNone}

\* element declarations with up to MaxPairs attributes and up to MaxWords
\* items of contents
Pairs ==
    {<<Id("class"), COLON, Id("cn")>>, <<Id("id"), COLON, Num("1")>>}

ContentItems ==
    {<<Id("c")>>, <<Id("d")>>, <<PCT, Id("v"), PCT>>}

ContentBodies ==
    {Concat(s) : s \in SeqsUpTo(ContentItems, MaxWords)} \cup {IncludeF}

\* an element declaration whose "->" is missing: it leaves an Error on record
NoArrowDecl == <<Id("p"), LP, RP, Id("c")>>

RichDecls ==
    {pre \o <<Id("div"), LP>> \o Concat(ps) \o <<RP, ARROW>> \o body :
        pre \in {<< >>, NoArrowDecl}, ps \in SeqsUpTo(Pairs, MaxPairs),
        body \in ContentBodies}

\* the templates of S and those with up to n tokens left out
RECURSIVE DeleteUpTo(_, _)
DeleteUpTo(S, n) ==
    IF n = 0 THEN S
    ELSE LET D == DeleteUpTo(S, n - 1)
         IN  D \cup UNION {{DeleteAt(t, i) : i \in 1..Len(t)} : t \in D}

MutationBases ==
    {Wrap(k, b) \o post : k \in WrapKinds, b \in {<< >>, ElemDecl, LetX},
                          post \in {<< >>, ElemDecl}}
    \cup {ElemDecl, ElemAttr, ElemAttr2, ElemVar, LetX \o ElemDecl, LetY}

Mutated ==
    DeleteUpTo(MutationBases, MaxDeletes)

\* every sequence of at most MaxSoup tokens of SoupTokens
SoupTokens ==
    {Id("x"), Id("let"), Id("for"), Id("if"), Num("10"), LP, RP, LB, RB, COLON, ARROW,
     GT, EQUALS, AMP, PCT, PLUS}

Soup ==
    SeqsUpTo(SoupTokens, MaxSoup)

\* div() -> { p() -> pContents }
ElNestedBraced ==
    <<Id("div"), LP, RP, ARROW, LB, Id("p"), LP, RP, ARROW, Id("pContents"), RB>>

\* div() -> c %v% d
ElemVarBetween ==
    <<Id("div"), LP, RP, ARROW, Id("c"), PCT, Id("v"), PCT, Id("d")>>

\* let 10: Int = 5
LetNumber ==
    <<Id("let"), Num("10"), COLON, Id("Int"), EQUALS, Num("5")>>

\* if x y z { }
IfBare ==
    <<Id("if"), Id("x"), Id("y"), Id("z"), LB, RB>>

\* if x: Int = 10 { }
IfAssign ==
    <<Id("if"), Id("x"), COLON, Id("Int"), EQUALS, Num("10"), LB, RB>>

\* if x > 10 > 5 { }
IfChained ==
    <<Id("if"), Id("x"), GT, Num("10"), GT, Num("5"), LB, RB>>

Templates ==
    Structured \cup RichDecls \cup Mutated \cup Soup
    \cup {ElNestedBraced, ElemVarBetween, LetNumber, IfBare, IfAssign, IfChained}

\* the configuration maps, and the templates compiled with one
Configs ==
    {("x" :> "1"), ("y" :> "2" @@ "v" :> "3")}

ConfigTemplates ==
    AtomSeqs \cup {Wrap(k, b) : k \in WrapKinds, b \in AtomOrNone}

Inputs ==
    {[template |-> t, config |-> None] : t \in Templates}
    \cup {[template |-> t, config |-> Some(m)] : t \in ConfigTemplates, m \in Configs}

(***************************************************************************)
(* The state machine: a compiler is constructed for a template (with or    *)
(* without a configuration map); then either the parser alone is run, as   *)
(* the tests do, or compile() is.                                          *)
(***************************************************************************)
Compiler_new(template) ==
    Parser_new(template, SymbolTable_new)

Compiler_from_config_file(template, input_map) ==
    Parser_new(template, from_existing_map(input_map))

Init ==
    /\ \E i \in Inputs :
          /\ config = i.config
          /\ parser = IF i.config = None
                      THEN Compiler_new(i.template)
                      ELSE Compiler_from_config_file(i.template, i.config[1])
    /\ pc = "new"
    /\ out = << >>
    /\ gen = << >>

Parse ==
    /\ pc = "new"
    /\ parser' = parse(parser)
    /\ pc' = "parsed"
    /\ UNCHANGED <<config, out, gen>>

Compile ==
    /\ pc = "new"
    /\ LET c == compile([parser |-> parser, out |-> out, gen |-> gen])
       IN  /\ parser' = c.parser
           /\ out' = c.out
           /\ gen' = c.gen
           /\ pc' = c.pc
    /\ UNCHANGED config

Next ==
    \/ Parse
    \/ Compile

Spec ==
    Init /\ [][Next]_vars

(***************************************************************************)
(* expect() on its own.  A parser is made for an if element, whole or with *)
(* a brace left out, and is either run (Parse), or stepped by hand: tokens *)
(* are read (Advance) and expect() is called with any of the token types   *)
(* the grammar routines call it with (Expect), up to MaxErrs Errors.       *)
(***************************************************************************)
MaxErrs == 2

\* the token types the grammar routines call expect() with
ExpectKinds ==
    {"LeftBrace", "RightBrace", "Colon", "LeftParen", "RightParen", "Arrow", "Ident"}

\* if elements, with a body or not, followed by an element or not
IfElements ==
    {Wrap("if", b) \o post : b \in {<< >>, ElemDecl}, post \in {<< >>, ElemDecl}}

\* an if element without its "{" or without its "}"
MissingBrace(kind) ==
    UNION {{DeleteAt(t, i) : i \in {j \in 1..Len(t) : t[j].tok_type = kind}} :
              t \in IfElements}

ExpectInit ==
    /\ \E t \in IfElements \cup MissingBrace("LeftBrace") \cup MissingBrace("RightBrace") :
          parser = [Compiler_new(t) EXCEPT !.status = "run"]
    /\ config = None
    /\ pc = "new"
    /\ out = << >>
    /\ gen = << >>

Advance ==
    /\ pc \in {"new", "stepping"}
    /\ parser.curr_tok.tok_type # "Eof"
    /\ parser' = get_next_tok(parser)
    /\ pc' = "stepping"
    /\ UNCHANGED <<config, out, gen>>

Expect ==
    /\ pc \in {"new", "stepping"}
    /\ Len(parser.diagnostic) < MaxErrs
    /\ \E token_type \in ExpectKinds : parser' = expect(parser, token_type)
    /\ pc' = "stepping"
    /\ UNCHANGED <<config, out, gen>>

ExpectNext ==
    \/ Parse
    \/ Advance
    \/ Expect

ExpectSpec ==
    ExpectInit /\ [][ExpectNext]_vars

(***************************************************************************)
(* The symbol table on its own: insert(), insert_for_id() and get() are    *)
(* public, so any node may reach them.  A table is made (empty, or from a  *)
(* configuration map) and up to MaxCalls calls are made on it, with nodes  *)
(* of every shape the checks of insert() and insert_for_id() tell apart.   *)
(***************************************************************************)
MaxCalls == 2

\* identifier and number nodes, with and without a type label
TableLeaves ==
    {[Ast_new_from_value(t, v) EXCEPT !.var_type = ty] :
        t \in {"Ident"}, v \in {"x", "y"}, ty \in {None, Some("Int")}}
    \cup {[Ast_new_from_value("Number", "10") EXCEPT !.var_type = ty] :
             ty \in {None, Some("Int")}}

\* nodes of the types insert() tells apart, with up to two children
TableNodes ==
    {[Ast_new(t) EXCEPT !.children = c] :
        t \in {"AssignExpr", "Empty"}, c \in SeqsUpTo(TableLeaves, 2)}

TableKeys == {"x", "y", "10"}

TableInit ==
    /\ config \in {None} \cup {Some(m) : m \in Configs}
    /\ parser = [Parser_new(<< >>, from_existing_map(unwrap_or(config, << >>)))
                    EXCEPT !.status = "run"]
    /\ pc = "table"
    /\ out = << >>
    /\ gen = << >>

TableInsert ==
    /\ pc = "table" /\ Running(parser) /\ Len(parser.trace) < MaxCalls
    /\ \E ast \in TableNodes : parser' = symbol_table_insert(parser, ast)
    /\ UNCHANGED <<config, pc, out, gen>>

TableInsertForId ==
    /\ pc = "table" /\ Running(parser) /\ Len(parser.trace) < MaxCalls
    /\ \E ast \in TableLeaves \cup {Ast_new("AssignExpr")} :
          parser' = symbol_table_insert_for_id(parser, ast)
    /\ UNCHANGED <<config, pc, out, gen>>

TableGet ==
    /\ pc = "table" /\ Running(parser) /\ Len(parser.trace) < MaxCalls
    /\ \E key \in TableKeys : parser' = symbol_table_get(parser, key)
    /\ UNCHANGED <<config, pc, out, gen>>

TableNext ==
    \/ TableInsert
    \/ TableInsertForId
    \/ TableGet

TableSpec ==
    TableInit /\ [][TableNext]_vars


(***************************************************************************)
(* The claims.                                                             *)
(***************************************************************************)
\* the template being compiled, as the lexer yields it
Template == parser.lexer.toks

\* the call (parse() alone, or compile()) has ended
Ended == pc # "new"

\* compile() has ended
Compiled == pc \in {"aborted", "generated"}

\* what compile() printed after its first line is exactly the messages d
Printed(d) ==
    SubSeq(out, 2, Len(out)) = d

\* C1: parse() on an input with no tokens returns, and has recorded at least
\* one Error diagnostic: is_err() is true.
C1_EmptyInputIsError ==
    (Ended /\ Template = << >>) =>
        (parser.status = "returned" /\ is_err(parser.diagnostic))

C1_Witness ==
    pc = "parsed" /\ Template = << >> /\ is_err(parser.diagnostic)

\* C2, as claimed: whenever the parse has recorded an Error, compile() never
\* invokes the generator and has printed every recorded message when it
\* ends; the generator is reached only when is_err() is false.
C2_Original ==
    Compiled =>
        /\ is_err(parser.diagnostic) => (gen = << >> /\ Printed(parser.diagnostic))
        /\ gen # << >> => ~is_err(parser.diagnostic)

\* C2, what the code guarantees: whenever the parse has recorded an Error,
\* compile() never invokes the generator; when parse() has returned (it did
\* not end in a fatal abort) every recorded message has been printed, in the
\* order of discovery, when compile() ends; the generator is reached only
\* when is_err() is false.
C2_GenerationGated ==
    Compiled =>
        /\ is_err(parser.diagnostic) => gen = << >>
        /\ parser.status = "returned" => Printed(parser.diagnostic)
        /\ gen # << >> => (~is_err(parser.diagnostic) /\ pc = "generated")

C2_Witness ==
    /\ pc = "aborted"
    /\ parser.status = "returned"
    /\ is_err(parser.diagnostic)
    /\ Len(out) = 1 + Len(parser.diagnostic)
    /\ gen = << >>

(***************************************************************************)
(* Declarations, read off the history of the symbol-table calls.           *)
(***************************************************************************)
\* the positions in the history of the calls of insert() and insert_for_id()
Decls ==
    {i \in 1..Len(parser.trace) : parser.trace[i].op \in {"insert", "insert_for_id"}}

\* the node the i-th call was given, and the name it declares
DeclAst(i) ==
    parser.trace[i].arg[1]

DeclName(i) ==
    IF parser.trace[i].op = "insert_for_id" THEN DeclAst(i).val
    ELSE IF Len(DeclAst(i).children) >= 1 THEN DeclAst(i).children[1].val
    ELSE ""

\* the i-th call ended in a panic: nothing follows it in the history
DeclPanicked(i) ==
    parser.status = "panic" /\ i = Len(parser.trace)

\* the names of the pre-seeded external mapping
Preseeded ==
    IF config = None THEN {} ELSE DOMAIN config[1]

\* the symbol the i-th call inserts when it returns
DeclSymbol(i) ==
    IF parser.trace[i].op = "insert_for_id"
    THEN Symbol(DeclName(i), DeclAst(i).var_type[1], DeclName(i), FOR_SCOPE)
    ELSE Symbol(DeclName(i), DeclAst(i).children[1].var_type[1],
                DeclAst(i).children[2].val, GLOBAL_SCOPE)

\* C3: a declaration (let binding or for-loop variable) of a name that is
\* already in the symbol table, whether from the pre-seeded mapping, a let
\* binding or a for-loop variable, ends the parse in a panic; so every symbol
\* stays in the table as it was first inserted under its name, and no two
\* symbols share a name.
C3_RedeclarationIsFatal ==
    Ended =>
        /\ \A i \in Decls :
              (\/ DeclName(i) \in Preseeded
               \/ \E j \in Decls : j < i /\ DeclName(j) = DeclName(i))
              => DeclPanicked(i)
        /\ \A i \in Decls :
              ~DeclPanicked(i) =>
                  /\ DeclName(i) \in DOMAIN parser.symbol_table
                  /\ parser.symbol_table[DeclName(i)] = DeclSymbol(i)
        /\ \A k \in Preseeded :
              /\ k \in DOMAIN parser.symbol_table
              /\ parser.symbol_table[k] = Symbol(k, "String", config[1][k], GLOBAL_SCOPE)
        /\ \A k \in DOMAIN parser.symbol_table : parser.symbol_table[k].name = k
        /\ Cardinality(DOMAIN parser.symbol_table)
              = Cardinality(Preseeded) + Cardinality({i \in Decls : ~DeclPanicked(i)})

\* a for-loop variable redeclares the name of an earlier let binding
C3_Witness ==
    /\ Ended
    /\ parser.status = "panic"
    /\ parser.panic_msg[1] = "tank: Redeclared symbol"
    /\ \E i \in Decls, j \in Decls :
          /\ j < i
          /\ DeclPanicked(i)
          /\ parser.trace[j].op = "insert"
          /\ parser.trace[i].op = "insert_for_id"
          /\ DeclName(j) = DeclName(i)

\* every combination of the claim occurs: the earlier entry pre-seeded, a
\* let binding or a for-loop variable, the new declaration a let binding or
\* a for-loop variable
C3_Combination(first, second) ==
    /\ parser.status = "panic"
    /\ parser.panic_msg[1] = "tank: Redeclared symbol"
    /\ parser.trace[Len(parser.trace)].op = second
    /\ IF first = "preseeded"
       THEN DeclName(Len(parser.trace)) \in Preseeded
       ELSE \E j \in Decls : /\ j < Len(parser.trace)
                             /\ parser.trace[j].op = first
                             /\ DeclName(j) = DeclName(Len(parser.trace))

(***************************************************************************)
(* Shapes of templates and of nodes.                                       *)
(***************************************************************************)
\* the type of the i-th token of the template (Eof beyond its end)
TokType(i) ==
    IF i \in 1..Len(Template) THEN Template[i].tok_type ELSE "Eof"

TokVal(i) ==
    IF i \in 1..Len(Template) THEN Template[i].val ELSE ""

\* the template begins with the tokens pre
StartsWith(pre) ==
    Len(Template) >= Len(pre) /\ SubSeq(Template, 1, Len(pre)) = pre

\* the values of the children of a node, in order
ChildVals(ast) ==
    [i \in 1..Len(ast.children) |-> ast.children[i].val]

ChildTypes(ast) ==
    [i \in 1..Len(ast.children) |-> ast.children[i].ast_type]

\* the template begins "let n : T = v" with v a single identifier or number
\* and n not in the pre-seeded mapping
LetHead ==
    /\ TokType(1) = "Ident" /\ TokVal(1) = "let"
    /\ TokType(2) = "Ident"
    /\ TokType(3) = "Colon"
    /\ TokType(4) = "Ident"
    /\ TokType(5) = "Equals"
    /\ TokType(6) \in {"Ident", "Number"}
    /\ TokType(7) \notin {"Plus", "Minus"}
    /\ TokVal(2) \notin Preseeded

\* C4: after parsing "let n: T = v" (n not declared before, v one identifier
\* or number) and whatever follows it, the symbol table maps n to the symbol
\* of name n, type T, value v and Global scope; the node given to the symbol
\* table is an AssignExpr with exactly two children, the identifier n then
\* the value v, and when parse() returns it is the only child of the first
\* element of the root.
C4_LetDeclares ==
    (Ended /\ LetHead) =>
        /\ TokVal(2) \in DOMAIN parser.symbol_table
        /\ parser.symbol_table[TokVal(2)]
              = Symbol(TokVal(2), TokVal(4), TokVal(6), GLOBAL_SCOPE)
        /\ Decls # {}
        /\ \A i \in Decls :
              (\A j \in Decls : i <= j) =>
                  /\ parser.trace[i].op = "insert"
                  /\ DeclAst(i).ast_type = "AssignExpr"
                  /\ ChildVals(DeclAst(i)) = <<TokVal(2), TokVal(6)>>
                  /\ DeclAst(i).children[1].ast_type = "Ident"
                  /\ DeclAst(i).children[1].var_type = Some(TokVal(4))
                  /\ parser.status = "returned" =>
                        /\ Len(parser.root.children) >= 1
                        /\ parser.root.children[1].ast_type = "Element"
                        /\ parser.root.children[1].children = <<DeclAst(i)>>

\* "let x: Int = 10" and an element declaration after it have been parsed
C4_Witness ==
    /\ pc = "parsed"
    /\ LetHead
    /\ StartsWith(LetX \o ElemDecl)
    /\ parser.status = "returned"
    /\ parser.symbol_table["x"] = Symbol("x", "Int", "10", GLOBAL_SCOPE)
    /\ Len(parser.root.children) >= 2
    /\ parser.root.children[2].ast_type = "Element"

\* the template begins "let n = ...": a let binding without its type label
UntypedLetHead ==
    /\ TokType(1) = "Ident" /\ TokVal(1) = "let"
    /\ TokType(2) = "Ident"
    /\ TokType(3) = "Equals"

\* the template begins "for n in ...": a loop variable without its type label
UntypedForHead ==
    /\ TokType(1) = "Ident" /\ TokVal(1) = "for"
    /\ TokType(2) = "Ident"
    /\ TokType(3) = "Ident" /\ TokVal(3) = "in"

\* C5, as claimed: a declaration without its ": Type" label ends the parse
\* in a panic, for a let binding and for a for-loop variable alike; and the
\* type of every for-loop variable in the table is the token written after a
\* colon.
C5_Original ==
    Ended =>
        /\ UntypedLetHead => parser.status = "panic"
        /\ UntypedForHead => parser.status = "panic"
        /\ \A i \in Decls :
              (parser.trace[i].op = "insert_for_id" /\ ~DeclPanicked(i)) =>
                  TokType(parser.trace[i].pos - 1) = "Colon"

\* C5, what the code does: an untyped let binding ends the parse in a panic
\* (the node reaching the symbol table is not an AssignExpr), after an Error
\* was recorded; an untyped for-loop variable records an Error and is
\* inserted with the word "in" as its type, and the parse goes on.
C5_UntypedDeclarations ==
    Ended =>
        /\ UntypedLetHead =>
              /\ parser.status = "panic"
              /\ parser.panic_msg = <<"tank: Invalid ast type found in symbol table">>
              /\ is_err(parser.diagnostic)
              /\ parser.symbol_table = from_existing_map(unwrap_or(config, << >>))
        /\ (UntypedForHead /\ TokVal(2) \notin Preseeded) =>
              /\ is_err(parser.diagnostic)
              /\ TokVal(2) \in DOMAIN parser.symbol_table
              /\ parser.symbol_table[TokVal(2)]
                    = Symbol(TokVal(2), "in", TokVal(2), FOR_SCOPE)

\* "for x in xs { ... }" has been parsed to the end with x in the table
C5_Witness ==
    /\ pc = "parsed"
    /\ UntypedForHead
    /\ parser.status = "returned"
    /\ "x" \in DOMAIN parser.symbol_table
    /\ parser.symbol_table["x"].sym_type = "in"

\* the template begins "if x > 10 {"
IfHead ==
    StartsWith(<<Id("if"), Id("x"), GT, Num("10"), LB>>)

\* the first child of the root is an IfExpr with exactly two children, the
\* first of them a comparison with exactly two children, Ident x then
\* Number 10
IfExprShape ==
    /\ Len(parser.root.children) >= 1
    /\ parser.root.children[1].ast_type = "IfExpr"
    /\ Len(parser.root.children[1].children) = 2
    /\ parser.root.children[1].children[1].ast_type = "Gt"
    /\ parser.root.children[1].children[1].children
          = <<Ast_new_from_value("Ident", "x"), Ast_new_from_value("Number", "10")>>

\* C6, as claimed: parsing "if x > 10 { body } nextElem" without an Error
\* gives a root with exactly two children, the first an IfExpr with exactly
\* two children whose condition is a comparison of Ident x and Number 10.
C6_Original ==
    (Ended /\ IfHead /\ parser.status = "returned" /\ ~is_err(parser.diagnostic)) =>
        (Len(parser.root.children) = 2 /\ IfExprShape)

\* C6, amended: parsing "if x > 10 { body } nextElem" gives a root with at
\* least two children, exactly two when the braces are empty and nothing
\* follows them (the second is then the Eof node); the first is an IfExpr
\* with exactly two children, the condition and the element from inside the
\* braces, and the condition is a comparison with exactly two children,
\* Ident x then Number 10.
C6_IfShape ==
    (Ended /\ IfHead /\ parser.status = "returned") =>
        /\ Len(parser.root.children) >= 2
        /\ IfExprShape
        /\ parser.root.children[1].children[2].ast_type
              \in {"Element", "IfExpr", "ForExpr", "Include", "Eof"}
        /\ Template = Wrap("if", << >>) =>
              /\ Len(parser.root.children) = 2
              /\ parser.root.children[1].children[2] = Ast_new("Eof")
              /\ parser.root.children[2] = Ast_new("Eof")

\* "if x > 10 { div() -> c } div() -> c" has been parsed: the root has the
\* IfExpr, the element after it, and two Eof nodes
C6_Witness ==
    /\ pc = "parsed"
    /\ Template = Wrap("if", ElemDecl) \o ElemDecl
    /\ parser.status = "returned"
    /\ ~is_err(parser.diagnostic)
    /\ IfExprShape
    /\ ChildTypes(parser.root) = <<"IfExpr", "Element", "Eof", "Eof">>

\* the words that are keywords where an element is expected
Keywords == {"if", "for", "let"}

\* after o tokens the template goes on "name ( ) ->", name not a keyword
ElemHeadAt(o) ==
    /\ TokType(o + 1) = "Ident" /\ TokVal(o + 1) \notin Keywords
    /\ TokType(o + 2) = "LeftParen"
    /\ TokType(o + 3) = "RightParen"
    /\ TokType(o + 4) = "Arrow"

\* the last token of the run of content words that begins at token i (i - 1
\* when there is none): identifiers not followed by "("
RECURSIVE WordsEnd(_)
WordsEnd(i) ==
    IF TokType(i) = "Ident" /\ TokType(i + 1) # "LeftParen"
    THEN WordsEnd(i + 1)
    ELSE i - 1

\* the body after "name ( ) ->" at o is a run of content words, not followed
\* by an interpolation
WordsBodyAt(o) ==
    WordsEnd(o + 5) >= o + 5 /\ TokType(WordsEnd(o + 5) + 1) # "Percent"

\* the body after "name ( ) ->" at o is another element declaration
ElementBodyAt(o) ==
    /\ TokType(o + 5) = "Ident" /\ TokVal(o + 5) \notin Keywords
    /\ TokType(o + 6) = "LeftParen"

\* el is the Element of the declaration "name ( ) -> body" at o: exactly
\* three children, ElementName(name), an AttrList with no children and the
\* body: the Contents of the content words in order, or an Element with
\* three children of its own that begins ElementName, AttrList
ElementShapeAt(el, o) ==
    /\ el.ast_type = "Element"
    /\ Len(el.children) = 3
    /\ el.children[1] = Ast_new_from_value("ElementName", TokVal(o + 1))
    /\ el.children[2] = Ast_new("AttrList")
    /\ WordsBodyAt(o) =>
          /\ el.children[3].ast_type = "Contents"
          /\ el.children[3].children
                = [i \in 1..(WordsEnd(o + 5) - (o + 4)) |->
                       Ast_new_from_value("Ident", TokVal(o + 4 + i))]
    /\ ElementBodyAt(o) =>
          /\ el.children[3].ast_type = "Element"
          /\ Len(el.children[3].children) = 3
          /\ el.children[3].children[1] = Ast_new_from_value("ElementName", TokVal(o + 5))
          /\ el.children[3].children[2].ast_type = "AttrList"

\* C7: an element declaration "name() -> body" yields an Element with
\* exactly three children: ElementName(name), an AttrList without children
\* and the body, which is the Contents of the content words in order, or,
\* when another element declaration follows the arrow directly, an Element
\* of the same three-child shape.
C7_ElementShape ==
    (Ended /\ ElemHeadAt(0) /\ parser.status = "returned") =>
        /\ Len(parser.root.children) >= 1
        /\ ElementShapeAt(parser.root.children[1], 0)
        /\ (ElementBodyAt(0) /\ ElemHeadAt(4)) =>
              ElementShapeAt(parser.root.children[1].children[3], 4)

\* "div() -> div() -> c" has been parsed: the outer body is an Element, and
\* its body the Contents of the word c
C7_Witness ==
    /\ pc = "parsed"
    /\ Template = Wrap("nest", ElemDecl)
    /\ ElemHeadAt(0) /\ ElementBodyAt(0) /\ ElemHeadAt(4) /\ WordsBodyAt(4)
    /\ parser.status = "returned"
    /\ parser.root.children[1].children[3].children[3]
          = push(Ast_new("Contents"), Ast_new_from_value("Ident", "c"))

\* the template is "name ( ) -> { name2 ( ) -> words }"
NestedBracedForm ==
    /\ ElemHeadAt(0)
    /\ TokType(5) = "LeftBrace"
    /\ ElemHeadAt(5)
    /\ WordsBodyAt(5)
    /\ TokType(WordsEnd(10) + 1) = "RightBrace"
    /\ Len(Template) = WordsEnd(10) + 1

\* el is the Element of the declaration "name2 ( ) -> words" at token 5
InnerElement(el) ==
    /\ el.ast_type = "Element"
    /\ Len(el.children) = 3
    /\ el.children[1] = Ast_new_from_value("ElementName", TokVal(6))
    /\ el.children[3].ast_type = "Contents"
    /\ el.children[3].children
          = [i \in 1..(WordsEnd(10) - 9) |-> Ast_new_from_value("Ident", TokVal(9 + i))]

\* C8, as claimed: for "div() -> { p() -> pContents }" the third child of
\* the outer Element is the Element for p, whose third child is the Contents
\* with the single child Ident pContents.
C8_Original ==
    (Ended /\ NestedBracedForm /\ parser.status = "returned") =>
        /\ Len(parser.root.children) >= 1
        /\ Len(parser.root.children[1].children) = 3
        /\ InnerElement(parser.root.children[1].children[3])

\* C8, what the code does: the third child of the outer Element is an Eof
\* node; the braces are parsed as the element that follows the outer one, so
\* the Element for p is the only child of an Element that is the second
\* child of the root.
C8_BracedBodyIsSibling ==
    (Ended /\ NestedBracedForm /\ parser.status = "returned") =>
        /\ ~is_err(parser.diagnostic)
        /\ ChildTypes(parser.root) = <<"Element", "Element", "Eof">>
        /\ ChildTypes(parser.root.children[1]) = <<"ElementName", "AttrList", "Eof">>
        /\ ChildTypes(parser.root.children[2]) = <<"Element">>
        /\ InnerElement(parser.root.children[2].children[1])

C8_Witness ==
    /\ pc = "parsed"
    /\ Template = ElNestedBraced
    /\ NestedBracedForm
    /\ parser.status = "returned"
    /\ parser.root.children[1].children[3] = Ast_new("Eof")
    /\ parser.root.children[2].children[1].children[3]
          = push(Ast_new("Contents"), Ast_new_from_value("Ident", "pContents"))

\* the number of well-formed "key : value" pairs in a row from token i on
RECURSIVE PairsFrom(_)
PairsFrom(i) ==
    IF /\ TokType(i) \in {"Ident", "Number"}
       /\ TokType(i + 1) = "Colon"
       /\ TokType(i + 2) \in {"Ident", "Number"}
    THEN 1 + PairsFrom(i + 3)
    ELSE 0

\* after o tokens the template goes on "name ( pairs )": an attribute list
\* of PairsFrom(o + 3) well-formed pairs
AttrListAt(o) ==
    /\ TokType(o + 1) = "Ident" /\ TokVal(o + 1) \notin Keywords
    /\ TokType(o + 2) = "LeftParen"
    /\ TokType(o + 3 + 3 * PairsFrom(o + 3)) = "RightParen"

\* the node term() yields for the i-th token, a key or a value of a pair
PairNode(i) ==
    Ast_new_from_value(TokType(i), TokVal(i))

\* the children of the AttrList of n pairs from token i on: key, value, key,
\* value, ...
PairNodes(i, n) ==
    [k \in 1..(2 * n) |->
        IF k % 2 = 1 THEN PairNode(i + 3 * ((k - 1) \div 2))
        ELSE PairNode(i + 3 * ((k - 2) \div 2) + 2)]

\* el is an Element whose second child is the AttrList of the pairs at o
AttrListShape(el, o) ==
    /\ el.ast_type = "Element"
    /\ Len(el.children) >= 2
    /\ el.children[2].ast_type = "AttrList"
    /\ Len(el.children[2].children) = 2 * PairsFrom(o + 3)
    /\ el.children[2].children = PairNodes(o + 3, PairsFrom(o + 3))

\* C9: an attribute list of n well-formed "key: value" pairs, parsed while
\* no Error is on record (at the start of the template, or after a let
\* binding), yields an AttrList with exactly 2n children: for each pair in
\* source order the key node then the value node, each with its lexeme.
C9_AttrListPairs ==
    (Ended /\ parser.status = "returned") =>
        /\ AttrListAt(0) =>
              /\ Len(parser.root.children) >= 1
              /\ AttrListShape(parser.root.children[1], 0)
        /\ (LetHead /\ AttrListAt(6)) =>
              /\ Len(parser.root.children) >= 2
              /\ AttrListShape(parser.root.children[2], 6)

\* div(class: cn id: 1) -> c has been parsed: two pairs, four children
C9_Witness ==
    /\ pc = "parsed"
    /\ Template = ElemAttr2
    /\ AttrListAt(0)
    /\ PairsFrom(3) = 2
    /\ parser.status = "returned"
    /\ ChildVals(parser.root.children[1].children[2]) = <<"class", "cn", "id", "1">>

\* well-formed element declarations, and each of them with one token of
\* type kind left out
AttrDecls ==
    {ElemDecl, ElemAttr, ElemAttr2}

Missing(kind) ==
    UNION {{DeleteAt(b, i) : i \in {j \in 1..Len(b) : b[j].tok_type = kind}} : b \in AttrDecls}

\* C10, as claimed: an element declaration whose attribute list lacks a
\* colon, its "(", its ")" or the "->" after it records at least one Error,
\* and parse() returns.
C10_Original ==
    (Ended /\ Template \in Missing("Colon") \cup Missing("LeftParen")
                           \cup Missing("RightParen") \cup Missing("Arrow")) =>
        (parser.status = "returned" /\ is_err(parser.diagnostic))

\* C10, what the code does: a missing colon, ")" or "->" records at least
\* one Error and parse() returns; without the "(" attr_list() is never
\* called: parse() returns with no Error on record, the name taken for a
\* plain identifier.
C10_MalformedAttrList ==
    Ended =>
        /\ Template \in Missing("Colon") \cup Missing("RightParen") \cup Missing("Arrow") =>
              (parser.status = "returned" /\ is_err(parser.diagnostic))
        /\ Template \in Missing("LeftParen") =>
              /\ parser.status = "returned"
              /\ ~is_err(parser.diagnostic)
              /\ parser.root.children[1].children[1].ast_type = "Ident"

\* "p class: cn) -> c d" has been parsed, and no Error is on record
C10_Witness ==
    /\ pc = "parsed"
    /\ Template = DeleteAt(ElemAttr, 2)
    /\ Template \in Missing("LeftParen")
    /\ parser.status = "returned"
    /\ ~is_err(parser.diagnostic)

(***************************************************************************)
(* Where a node starts in the source.                                      *)
(***************************************************************************)
\* the tokens a node of this type and name can start at: "&" before the
\* file name for an Include, the name before "(" for an element
\* declaration, the keyword for an if, a for and a let
NodeStarts(n) ==
    CASE n.ast_type = "Include" ->
            {k \in 1..Len(Template) : TokType(k) = "Ampersand" /\ TokVal(k + 1) = n.val}
      [] n.ast_type = "IfExpr" ->
            {k \in 1..Len(Template) : TokType(k) = "Ident" /\ TokVal(k) = "if"}
      [] n.ast_type = "ForExpr" ->
            {k \in 1..Len(Template) : TokType(k) = "Ident" /\ TokVal(k) = "for"}
      [] n.ast_type = "Element" /\ Len(n.children) >= 1 ->
            IF n.children[1].ast_type = "ElementName"
            THEN {k \in 1..Len(Template) : /\ TokType(k) = "Ident"
                                           /\ TokVal(k) = n.children[1].val
                                           /\ TokType(k + 1) = "LeftParen"}
            ELSE IF n.children[1].ast_type = "AssignExpr"
            THEN {k \in 1..Len(Template) : TokType(k) = "Ident" /\ TokVal(k) = "let"}
            ELSE {}
      [] OTHER -> {}

\* the node can start at one token only
Located(n) ==
    Cardinality(NodeStarts(n)) = 1

StartOf(n) ==
    CHOOSE k \in NodeStarts(n) : TRUE

\* the children i < j of the root, one of them an Include and both located,
\* are in source order
IncludeInOrder(i, j) ==
    (/\ "Include" \in {parser.root.children[i].ast_type, parser.root.children[j].ast_type}
     /\ Located(parser.root.children[i])
     /\ Located(parser.root.children[j]))
    => StartOf(parser.root.children[i]) < StartOf(parser.root.children[j])

\* C11, as claimed: in the root of a parse that returned without an Error,
\* every sibling before an Include starts earlier in the source and every
\* sibling after it starts later, also with braced bodies in the template;
\* and a template that begins "&name" has the Include of name first.
C11_Original ==
    (Ended /\ parser.status = "returned" /\ ~is_err(parser.diagnostic)) =>
        /\ \A i \in 1..Len(parser.root.children) :
              \A j \in (i + 1)..Len(parser.root.children) : IncludeInOrder(i, j)
        /\ TokType(1) = "Ampersand" =>
              parser.root.children[1] = Ast_new_from_value("Include", TokVal(2))

\* the template has no braces
NoBraces ==
    \A k \in 1..Len(Template) : TokType(k) \notin {"LeftBrace", "RightBrace"}

\* C11, what the code does: "&name" yields the Include of name; in a
\* template without braces the root's children are in source order around
\* every Include.  (An element inside a braced body goes to the front of
\* the root before the elements after the closing brace do, and so ends up
\* behind them.)
C11_IncludeInOrderWithoutBraces ==
    (Ended /\ parser.status = "returned") =>
        /\ NoBraces =>
              \A i \in 1..Len(parser.root.children) :
                 \A j \in (i + 1)..Len(parser.root.children) : IncludeInOrder(i, j)
        /\ TokType(1) = "Ampersand" =>
              parser.root.children[1] = Ast_new_from_value("Include", TokVal(2))

\* "&f div() -> c" has been parsed: the Include, the Element, the Eof node
C11_Witness ==
    /\ pc = "parsed"
    /\ Template = IncludeF \o ElemDecl
    /\ parser.status = "returned"
    /\ parser.root.children[1] = Ast_new_from_value("Include", "f")
    /\ ChildTypes(parser.root) = <<"Include", "Element", "Eof">>
    /\ StartOf(parser.root.children[1]) = 1
    /\ StartOf(parser.root.children[2]) = 3

(***************************************************************************)
(* Contents with interpolations.                                           *)
(***************************************************************************)
\* the nodes the content items from token i on stand for: an Ident for a
\* word, one VariableValue for "% name %"
RECURSIVE ItemNodes(_)
ItemNodes(i) ==
    IF TokType(i) = "Ident" /\ TokType(i + 1) # "LeftParen"
    THEN <<Ast_new_from_value("Ident", TokVal(i))>> \o ItemNodes(i + 1)
    ELSE IF TokType(i) = "Percent" /\ TokType(i + 1) = "Ident" /\ TokType(i + 2) = "Percent"
    THEN <<Ast_new_from_value("VariableValue", TokVal(i + 1))>> \o ItemNodes(i + 3)
    ELSE << >>

\* the first token after the content items that begin at token i
RECURSIVE ItemsEnd(_)
ItemsEnd(i) ==
    IF TokType(i) = "Ident" /\ TokType(i + 1) # "LeftParen" THEN ItemsEnd(i + 1)
    ELSE IF TokType(i) = "Percent" /\ TokType(i + 1) = "Ident" /\ TokType(i + 2) = "Percent"
    THEN ItemsEnd(i + 3)
    ELSE i

\* the template is "name ( ) ->" and content items to its end, at least one
\* of them an interpolation
InterpolatedBody ==
    /\ ElemHeadAt(0)
    /\ ItemsEnd(5) = Len(Template) + 1
    /\ \E k \in 5..Len(Template) : TokType(k) = "Percent"

\* the nodes of the body of an element: the children of its Contents, or
\* the one node that is its third child
BodyNodes(el) ==
    IF el.children[3].ast_type = "Contents" THEN el.children[3].children
    ELSE <<el.children[3]>>

\* C12, as claimed: the body of "name() -> items" has one node per content
\* item, in order: an Ident for each word and exactly one VariableValue with
\* value name for each "%name%", the interpolation first or after words.
C12_Original ==
    (Ended /\ InterpolatedBody /\ parser.status = "returned") =>
        /\ Len(parser.root.children[1].children) = 3
        /\ BodyNodes(parser.root.children[1]) = ItemNodes(5)

\* C12, what the code does.  An interpolation that is the first item is the
\* whole body: the third child is the VariableValue of name, and the
\* closing "%" is left as the current token, so nothing after it is parsed.
\* After content words, "% name %" yields the VariableValue of name, and the
\* closing "%" opens another one: the token after it (a following word, or
\* the end of input with the empty value) becomes a VariableValue too.
C12_Interpolation ==
    (Ended /\ ElemHeadAt(0) /\ parser.status = "returned") =>
        /\ (TokType(5) = "Percent" /\ TokType(6) = "Ident" /\ TokType(7) = "Percent") =>
              /\ parser.root.children[1].children[3]
                    = Ast_new_from_value("VariableValue", TokVal(6))
              /\ parser.lexer.pos = 7
              /\ ChildTypes(parser.root) = <<"Element", "Eof">>
        /\ (/\ WordsEnd(5) >= 5
            /\ TokType(WordsEnd(5) + 1) = "Percent"
            /\ TokType(WordsEnd(5) + 2) = "Ident"
            /\ TokType(WordsEnd(5) + 3) = "Percent"
            /\ TokType(WordsEnd(5) + 4) \in {"Ident", "Eof"}
            /\ TokType(WordsEnd(5) + 5) # "LeftParen") =>
              /\ parser.root.children[1].children[3].ast_type = "Contents"
              /\ Len(parser.root.children[1].children[3].children) >= WordsEnd(5) - 2
              /\ SubSeq(parser.root.children[1].children[3].children, 1, WordsEnd(5) - 2)
                    = [i \in 1..(WordsEnd(5) - 2) |->
                         IF i <= WordsEnd(5) - 4
                         THEN Ast_new_from_value("Ident", TokVal(4 + i))
                         ELSE IF i = WordsEnd(5) - 3
                         THEN Ast_new_from_value("VariableValue", TokVal(WordsEnd(5) + 2))
                         ELSE Ast_new_from_value("VariableValue", TokVal(WordsEnd(5) + 4))]

\* "div() -> c %v% d" has been parsed: the word d is a VariableValue
C12_Witness ==
    /\ pc = "parsed"
    /\ Template = ElemVarBetween
    /\ InterpolatedBody
    /\ parser.status = "returned"
    /\ ChildTypes(parser.root.children[1].children[3])
          = <<"Ident", "VariableValue", "VariableValue">>
    /\ ChildVals(parser.root.children[1].children[3]) = <<"c", "v", "d">>

(***************************************************************************)
(* How far the parse reads.                                                *)
(***************************************************************************)
\* every token has been consumed: the current token is Eof, past the end
WholeInputConsumed ==
    /\ parser.curr_tok.tok_type = "Eof"
    /\ parser.lexer.pos = Len(Template) + 1

\* C13, as claimed: when parse() returns with no Error on record, every
\* token has been consumed.
C13_Original ==
    (Ended /\ parser.status = "returned" /\ ~is_err(parser.diagnostic)) =>
        WholeInputConsumed

\* the template has no for loop and no braces
NoForNoBraces ==
    /\ NoBraces
    /\ \A k \in 1..Len(Template) : ~(TokType(k) = "Ident" /\ TokVal(k) = "for")

\* C13, what the code does: parse() returns at the first token that cannot
\* begin an element (anything but an identifier, "{" and "&"), Error or
\* not, and leaves the rest unread; the for arm and the brace arm return
\* after their closing brace whatever follows.  Without for loops and
\* braces, the current token when parse() returns is one that cannot begin
\* an element, and it is the token the lexer is at.
C13_StopsWhereNoElementBegins ==
    (Ended /\ parser.status = "returned") =>
        /\ parser.curr_tok.tok_type = TokType(parser.lexer.pos)
        /\ NoForNoBraces =>
              parser.curr_tok.tok_type \notin {"Ident", "LeftBrace", "Ampersand"}

\* "div) -> c" has been parsed: no Error, and the current token is the ")"
C13_Witness ==
    /\ pc = "parsed"
    /\ Template = DeleteAt(ElemDecl, 2)
    /\ NoForNoBraces
    /\ parser.status = "returned"
    /\ ~is_err(parser.diagnostic)
    /\ parser.curr_tok.tok_type = "RightParen"
    /\ parser.lexer.pos = 2

\* "for x: Int in xs { div() -> c } div() -> c" has been parsed without an
\* Error, and the element after the closing brace has not been read
C13_UnreadAfterFor ==
    /\ pc = "parsed"
    /\ Template = Wrap("for", ElemDecl) \o ElemDecl
    /\ parser.status = "returned"
    /\ ~is_err(parser.diagnostic)
    /\ parser.lexer.pos = Len(Wrap("for", ElemDecl)) + 1
    /\ ChildTypes(parser.root) = <<"ForExpr", "Eof">>

(***************************************************************************)
(* The calls made on the symbol table, and the table around them.          *)
(***************************************************************************)
\* the table before the i-th event of the history and after it
TableBefore(i) ==
    parser.trace[i].table

TableAfter(i) ==
    IF i < Len(parser.trace) THEN parser.trace[i + 1].table ELSE parser.symbol_table

InsertCalls ==
    {i \in 1..Len(parser.trace) : parser.trace[i].op = "insert"}

\* the i-th event left every entry of the table as it was
EntriesKept(i) ==
    \A k \in DOMAIN TableBefore(i) :
        k \in DOMAIN TableAfter(i) /\ TableAfter(i)[k] = TableBefore(i)[k]

\* the i-th event, a call of insert(), added exactly one symbol: the Global
\* symbol of the name of the first child of its node, under that name
InsertedOneGlobal(i) ==
    /\ DeclName(i) \notin DOMAIN TableBefore(i)
    /\ DOMAIN TableAfter(i) = DOMAIN TableBefore(i) \cup {DeclName(i)}
    /\ TableAfter(i)[DeclName(i)] = DeclSymbol(i)
    /\ TableAfter(i)[DeclName(i)].scope = GLOBAL_SCOPE
    /\ EntriesKept(i)

\* what the claim requires of a node: an AssignExpr with at least two
\* children, the first an identifier node with a type label
WellFormedAssign(a) ==
    /\ a.ast_type = "AssignExpr"
    /\ Len(a.children) >= 2
    /\ a.children[1].ast_type = "Ident"
    /\ a.children[1].var_type # None

\* what insert() tests: an AssignExpr with at least two children, the first
\* with a type label, whatever its own type
TestedAssign(a) ==
    /\ a.ast_type = "AssignExpr"
    /\ Len(a.children) >= 2
    /\ a.children[1].var_type # None

\* C14, as claimed: insert() panics unless its node is an AssignExpr with at
\* least two children whose first child is an identifier node with a type
\* label; every node it accepts adds exactly one Global symbol under that
\* identifier's name.
C14_Original ==
    \A i \in InsertCalls :
        /\ ~WellFormedAssign(DeclAst(i)) => DeclPanicked(i)
        /\ ~DeclPanicked(i) => InsertedOneGlobal(i)

\* C14, what the code does: insert() panics unless its node is an
\* AssignExpr with at least two children whose first child has a type label;
\* the type of the first child is not tested, so a number (or any other
\* node) with a type label is accepted and declared under its value.  A node
\* that passes the tests and whose name is not in the table is accepted;
\* every accepted node adds exactly one Global symbol under the value of its
\* first child; a panic leaves the table as it was.
C14_InsertChecks ==
    \A i \in InsertCalls :
        /\ ~TestedAssign(DeclAst(i)) => DeclPanicked(i)
        /\ (TestedAssign(DeclAst(i)) /\ DeclName(i) \notin DOMAIN TableBefore(i))
              => ~DeclPanicked(i)
        /\ ~DeclPanicked(i) => InsertedOneGlobal(i)
        /\ DeclPanicked(i) => TableAfter(i) = TableBefore(i)

\* insert() has accepted an AssignExpr whose first child is a number
C14_Witness ==
    /\ pc = "table"
    /\ \E i \in InsertCalls :
          /\ ~DeclPanicked(i)
          /\ DeclAst(i).children[1].ast_type = "Number"
          /\ ~WellFormedAssign(DeclAst(i))
          /\ "10" \in DOMAIN parser.symbol_table
          /\ parser.symbol_table["10"].scope = GLOBAL_SCOPE

\* the same through the parser: "let 10: Int = 5" has been parsed, and the
\* table holds a symbol named 10
C14_LetNumberParsed ==
    /\ pc = "parsed"
    /\ Template = LetNumber
    /\ parser.status = "returned"
    /\ parser.symbol_table = ("10" :> Symbol("10", "Int", "5", GLOBAL_SCOPE))

(***************************************************************************)
(* expect() and what it leaves alone.                                      *)
(***************************************************************************)
\* the step is a call of expect(token_type) on a token of that type: the
\* cursor is one token further, on the next token of the template, and the
\* diagnostics are as they were
ExpectMatched ==
    /\ parser'.lexer.pos = parser.lexer.pos + 1
    /\ parser'.curr_tok = IF parser.lexer.pos + 1 <= Len(Template)
                          THEN Template[parser.lexer.pos + 1]
                          ELSE Token_new_from_empty
    /\ parser'.diagnostic = parser.diagnostic
    /\ parser'.root = parser.root
    /\ parser'.symbol_table = parser.symbol_table
    /\ parser'.status = "run"

\* the step is a call of expect(token_type) on a token of another type:
\* exactly one Error is appended, which cites the token; the current token
\* and the lexer are as they were, and the parser is still running
ExpectMissed ==
    /\ Len(parser'.diagnostic) = Len(parser.diagnostic) + 1
    /\ SubSeq(parser'.diagnostic, 1, Len(parser.diagnostic)) = parser.diagnostic
    /\ parser'.diagnostic[Len(parser'.diagnostic)].sev = "Error"
    /\ parser'.diagnostic[Len(parser'.diagnostic)].tok = Some(parser.curr_tok)
    /\ parser'.curr_tok = parser.curr_tok
    /\ parser'.lexer = parser.lexer
    /\ parser'.trace = parser.trace
    /\ parser'.root = parser.root
    /\ parser'.symbol_table = parser.symbol_table
    /\ parser'.status = "run"

ExpectEffect ==
    \A token_type \in ExpectKinds :
        (pc \in {"new", "stepping"} /\ pc' = "stepping" /\ parser' = expect(parser, token_type))
        => IF parser.curr_tok.tok_type = token_type THEN ExpectMatched ELSE ExpectMissed

\* C15: a call of expect(kind) on a token of that kind advances the cursor
\* by exactly one token and records nothing; on any other token it appends
\* exactly one Error and leaves the current token and the lexer unchanged,
\* and the parser goes on; the tree and the symbol table are untouched.  And the parse of an if element whose "{" or "}"
\* is missing returns with is_err() true.
C15_ExpectFrame ==
    /\ [][ExpectEffect]_vars
    /\ [](pc = "parsed" /\ Template \in MissingBrace("LeftBrace") \cup MissingBrace("RightBrace")
             => parser.status = "returned" /\ is_err(parser.diagnostic))

\* if x > 10 div() -> c } has been parsed: one Error, "{" was expected
C15_Witness ==
    /\ pc = "parsed"
    /\ Template = DeleteAt(Wrap("if", ElemDecl), 5)
    /\ Template \in MissingBrace("LeftBrace")
    /\ parser.status = "returned"
    /\ Len(parser.diagnostic) = 1
    /\ parser.diagnostic[1].text = <<"Expected", "LeftBrace", "found", "Ident">>

(***************************************************************************)
(* Termination.                                                            *)
(***************************************************************************)
\* C16, as claimed: parse() ends on every template: it returns, or it
\* panics in the symbol table; no routine re-enters itself without a token
\* consumed in between.
C16_Original ==
    Ended => parser.status \in {"returned", "panic"}

\* the token types term() has an arm of its own for
TermKinds ==
    {"Ident", "Number", "Eof", "Arrow"}

\* C16, what the code does: parse() returns or panics unless term() is
\* reached on a token that is not an identifier, a number, "->" or the end
\* of input.  On any other token (an operator, "(", a brace, ":", "=", "%",
\* "&") term() calls expr(), expr() calls op() and op() calls term() on the
\* same token, without end: the call stack is exhausted.
C16_OverflowOnlyInTerm ==
    Ended =>
        /\ parser.status \in {"returned", "panic", "overflow"}
        /\ parser.status = "overflow" =>
              /\ parser.lexer.pos \in 1..Len(Template)
              /\ parser.curr_tok = Template[parser.lexer.pos]
              /\ parser.curr_tok.tok_type \notin TermKinds
        /\ (\A k \in 1..Len(Template) : TokType(k) \in TermKinds) =>
              parser.status \in {"returned", "panic"}

\* "if ( x" has been parsed: term() was reached on "("
C16_Witness ==
    /\ pc = "parsed"
    /\ Template = <<Id("if"), LP, Id("x")>>
    /\ parser.status = "overflow"
    /\ parser.curr_tok = LP

(***************************************************************************)
(* The conditions of if elements.                                          *)
(***************************************************************************)
\* the nodes of a tree
RECURSIVE Nodes(_)
Nodes(ast) ==
    {ast} \cup UNION {Nodes(ast.children[i]) : i \in 1..Len(ast.children)}

IfExprs ==
    {n \in Nodes(parser.root) : n.ast_type = "IfExpr"}

\* the node has exactly two children, neither of them a comparison
TwoPlainOperands(c) ==
    /\ Len(c.children) = 2
    /\ c.children[1].ast_type \notin CompareOps
    /\ c.children[2].ast_type \notin CompareOps

\* C17, as claimed: in a parse that returns with no Error, the first child
\* of every IfExpr is a comparison node with exactly two children, neither
\* of them a comparison.
C17_Original ==
    (Ended /\ parser.status = "returned" /\ ~is_err(parser.diagnostic)) =>
        \A n \in IfExprs :
            /\ Len(n.children) >= 1
            /\ n.children[1].ast_type \in CompareOps
            /\ TwoPlainOperands(n.children[1])

\* C17, what the code does: the first child of every IfExpr has exactly two
\* children, neither of them a comparison, and it is a comparison node when
\* a comparison operator follows the first operand.  Its type is otherwise
\* AssignExpr (after "x: T"), Empty (after "=") or the type of the first
\* operand, and the token after the first operand is skipped whatever it
\* is: no Error is recorded for "if x y z { }" or "if x: Int = 10 { }".
C17_ConditionShape ==
    (Ended /\ parser.status = "returned") =>
        /\ \A n \in IfExprs :
              /\ Len(n.children) = 2
              /\ TwoPlainOperands(n.children[1])
        /\ (/\ TokType(1) = "Ident" /\ TokVal(1) = "if"
            /\ TokType(2) \in {"Ident", "Number"}
            /\ TokType(3) \in CompareOps) =>
              parser.root.children[1].children[1].ast_type = TokType(3)
        /\ Template = IfBare =>
              /\ ~is_err(parser.diagnostic)
              /\ parser.root.children[1].children[1].ast_type = "Ident"
              /\ ChildVals(parser.root.children[1].children[1]) = <<"x", "z">>
        /\ Template = IfChained => is_err(parser.diagnostic)

\* "if x: Int = 10 { }" has been parsed without an Error: the condition is
\* an AssignExpr
C17_Witness ==
    /\ pc = "parsed"
    /\ Template = IfAssign
    /\ parser.status = "returned"
    /\ ~is_err(parser.diagnostic)
    /\ IfExprs # {}
    /\ parser.root.children[1].children[1].ast_type = "AssignExpr"
    /\ ChildVals(parser.root.children[1].children[1]) = <<"x", "10">>

(***************************************************************************)
(* Attribute lists parsed with an Error on record.                         *)
(***************************************************************************)
\* the template is "p ( ) c" followed by "name ( pairs )": the attribute
\* list at token 5 is parsed with the Error of the missing "->" on record
AttrListAfterError ==
    /\ StartsWith(NoArrowDecl)
    /\ AttrListAt(Len(NoArrowDecl))

\* the AttrList of the second element of the template
SecondAttrList ==
    parser.root.children[2].children[2]

\* C18: the pair loop of attr_list() leaves right after a pair whenever an
\* Error is on record, one recorded before the attribute list began
\* included: an attribute list of well-formed pairs parsed after an Error
\* yields an AttrList of its first pair only (none if it has no pair), and
\* with no Error on record the loop goes on until the current token is ")":
\* the AttrList has two children for every pair.
C18_ErrorEndsPairLoop ==
    (Ended /\ parser.status = "returned") =>
        /\ AttrListAfterError =>
              /\ is_err(parser.diagnostic)
              /\ Len(parser.root.children) >= 2
              /\ Len(parser.root.children[2].children) >= 2
              /\ SecondAttrList.ast_type = "AttrList"
              /\ Len(SecondAttrList.children) <= 2
              /\ SecondAttrList.children
                    = IF PairsFrom(Len(NoArrowDecl) + 3) = 0 THEN << >>
                      ELSE PairNodes(Len(NoArrowDecl) + 3, 1)
        /\ AttrListAt(0) =>
              Len(parser.root.children[1].children[2].children) = 2 * PairsFrom(3)

\* "p() c div(class: cn id: 1) -> c" has been parsed: the attribute list of
\* div has two well-formed pairs and its AttrList the first one only
C18_Witness ==
    /\ pc = "parsed"
    /\ Template = NoArrowDecl \o ElemAttr2
    /\ AttrListAfterError
    /\ PairsFrom(Len(NoArrowDecl) + 3) = 2
    /\ parser.status = "returned"
    /\ ChildVals(SecondAttrList) = <<"class", "cn">>

(***************************************************************************)
(* Where the cursor is when a declaration is registered.                   *)
(***************************************************************************)
\* the index of the current token when the i-th event of the history
\* happened: the tokens before it have been consumed, none after it has
CursorAt(i) ==
    parser.trace[i].pos

\* the last leaf of a tree: the node of the last token that went into it
RECURSIVE LastLeaf(_)
LastLeaf(ast) ==
    IF ast.children = << >> THEN ast ELSE LastLeaf(ast.children[Len(ast.children)])

TokenLeaves ==
    {"Ident", "Number", "ElementName"}

FirstDecl ==
    CHOOSE i \in Decls : \A j \in Decls : i <= j

\* the template begins "let n: T = v" and goes on with another element
LetFirst ==
    /\ TokType(1) = "Ident" /\ TokVal(1) = "let"
    /\ TokType(2) = "Ident"
    /\ TokType(3) = "Colon"
    /\ TokType(4) = "Ident"
    /\ TokType(5) = "Equals"
    /\ TokType(6) = "Number"
    /\ TokType(7) \notin {"Plus", "Minus"}

\* the template begins "for n: T in xs": the loop body begins at token 7
ForFirst ==
    /\ TokType(1) = "Ident" /\ TokVal(1) = "for"
    /\ TokType(2) = "Ident"
    /\ TokType(3) = "Colon"
    /\ TokType(4) = "Ident"
    /\ TokType(5) = "Ident" /\ TokVal(5) = "in"
    /\ TokType(6) = "Ident"

\* C19: declarations are registered before parsing moves past them.  When
\* insert() is called for a let binding the last token consumed is the last
\* token of its value expression: the token after it, the first of the
\* following element, is the current token and nothing of that element has
\* been parsed.  When insert_for_id() is called for a loop variable the
\* current token is still the type label, before "in", the collection and
\* the loop body.  A call that ends in a panic leaves the cursor there:
\* nothing after the redeclaring declaration is consumed, and the tree of a
\* template whose first declaration panics is still the empty Template.
C19_DeclaredBeforeMovingOn ==
    Ended =>
        /\ \A i \in Decls :
              /\ (/\ parser.trace[i].op = "insert"
                  /\ LastLeaf(DeclAst(i)).ast_type \in TokenLeaves) =>
                     /\ Len(DeclAst(i).children) = 2
                     /\ TokVal(CursorAt(i) - 1) = LastLeaf(DeclAst(i)).val
                     /\ TokType(CursorAt(i) - 1) \in {"Ident", "Number"}
              /\ (/\ parser.trace[i].op = "insert_for_id"
                  /\ DeclAst(i).ast_type \in TokenLeaves) =>
                     /\ DeclAst(i).var_type = Some(TokVal(CursorAt(i)))
                     /\ DeclAst(i).val = TokVal(IF TokType(CursorAt(i) - 1) = "Colon"
                                                THEN CursorAt(i) - 2
                                                ELSE CursorAt(i) - 1)
              /\ DeclPanicked(i) =>
                     /\ parser.lexer.pos = CursorAt(i)
                     /\ \A j \in 1..Len(parser.trace) :
                           parser.trace[j].op = "lex" => parser.trace[j].pos <= CursorAt(i)
        /\ LetFirst =>
              /\ Decls # {}
              /\ parser.trace[FirstDecl].op = "insert"
              /\ CursorAt(FirstDecl) = 7
              /\ DeclPanicked(FirstDecl) => parser.root = Ast_new("Template")
        /\ ForFirst =>
              /\ Decls # {}
              /\ parser.trace[FirstDecl].op = "insert_for_id"
              /\ CursorAt(FirstDecl) = 4
              /\ DeclPanicked(FirstDecl) => parser.root = Ast_new("Template")

\* "let x: Int = 10 let x: Int = 10 div() -> c" has been parsed: the second
\* let binding panicked with the cursor on "div", its 13th token
C19_Witness ==
    /\ Ended
    /\ Template = LetX \o LetX \o ElemDecl
    /\ parser.status = "panic"
    /\ Cardinality(Decls) = 2
    /\ \E i \in Decls :
          /\ DeclPanicked(i)
          /\ parser.trace[i].op = "insert"
          /\ CursorAt(i) = 13
          /\ parser.curr_tok = Id("div")

(***************************************************************************)
(* Entries of the symbol table stay as they were inserted.                 *)
(***************************************************************************)
\* every entry of the table is filed under the name of its symbol
KeyedByName(table) ==
    \A k \in DOMAIN table : table[k].name = k

\* the table the compile started from: the pre-seeded mapping
SeededTable ==
    from_existing_map(unwrap_or(config, << >>))

\* C20: symbols are never removed or reassigned.  Every call made on the
\* symbol table (insert, insert_for_id or get, a call that panics included)
\* leaves every entry that was in the table before it in the table, with
\* the same name, type label, value and scope tag; the pre-seeded entries
\* are in the table at the end as they were made; and every entry's key is
\* its symbol's name, before and after every call.
C20_EntriesNeverChange ==
    /\ \A i \in 1..Len(parser.trace) :
          /\ EntriesKept(i)
          /\ KeyedByName(TableBefore(i))
          /\ KeyedByName(TableAfter(i))
    /\ KeyedByName(parser.symbol_table)
    /\ \A k \in DOMAIN SeededTable :
          k \in DOMAIN parser.symbol_table /\ parser.symbol_table[k] = SeededTable[k]

\* x was declared by insert(), then a call of insert_for_id() for x
\* panicked: the entry of x is the one insert() made
C20_Witness ==
    /\ pc = "table"
    /\ Len(parser.trace) = 2
    /\ parser.trace[1].op = "insert"
    /\ "x" \notin DOMAIN TableBefore(1)
    /\ "x" \in DOMAIN TableAfter(1)
    /\ parser.trace[2].op = "insert_for_id"
    /\ parser.trace[2].arg[1].val = "x"
    /\ parser.status = "panic"
    /\ parser.symbol_table["x"] = TableAfter(1)["x"]
    /\ parser.symbol_table["x"].scope = GLOBAL_SCOPE

=============================================================================
